---- MODULE Spec2Model ----
(***************************************************************************)
(* JwsLinkedDataSignature (lib/JwsLinkedDataSignature.js): the detached    *)
(* JWS proof suite.  sign() and verifySignature() are modelled as the      *)
(* async functions they are: one step up to the first await, one step per  *)
(* resumption.                                                             *)
(*                                                                         *)
(* Text is a sequence of character codes, bytes a sequence of 0..255.  The *)
(* modelled alphabet is ASCII without the JSON escape character, so UTF-8  *)
(* encoding and decoding are the identity on it; base64url and JSON are    *)
(* computed character by character.                                        *)
(***************************************************************************)
EXTENDS Integers, Sequences, FiniteSets, TLC

\* --------------------------------------------------------------- bounds
\* Longest verifyData payload, in bytes.
MaxPayloadLen == 1

\* The separator of the compact serialization: '.'.
Dot == 46

\* ------------------------------------------------------- JavaScript values
Undefined == [t |-> "undefined"]
Null == [t |-> "null"]
Bool(b) == [t |-> "boolean", b |-> b]
Num(n) == [t |-> "number", n |-> n]
Str(s) == [t |-> "string", s |-> s]
Arr(a) == [t |-> "array", a |-> a]
\* An object is the sequence of its own <<key, value>> members, in insertion
\* order, keys unique.
Obj(m) == [t |-> "object", m |-> m]

\* a === b: primitives compare by type and value, objects by reference (a
\* freshly parsed object or array is identical to nothing else).
StrictEquals(a, b) ==
  /\ a.t = b.t
  /\ a.t \notin {"object", "array"}
  /\ a = b

\* !!v
Truthy(v) ==
  CASE v.t \in {"undefined", "null"} -> FALSE
    [] v.t = "boolean" -> v.b
    [] v.t = "number" -> v.n # 0
    [] v.t = "string" -> Len(v.s) > 0
    [] OTHER -> TRUE

\* typeof v
TypeOf(v) ==
  CASE v.t \in {"null", "array", "object"} -> "object"
    [] OTHER -> v.t

\* v[k] for a text key k: an own member of an object, undefined otherwise
\* (an array has none of the names used here).
GetProp(v, k) ==
  IF v.t = "object" /\ \E i \in 1..Len(v.m) : v.m[i][1] = k
  THEN v.m[CHOOSE i \in 1..Len(v.m) : v.m[i][1] = k][2]
  ELSE Undefined

\* Object.keys(v).length: own members of an object, indices of an array.
KeyCount(v) ==
  CASE v.t = "object" -> Len(v.m)
    [] v.t = "array" -> Len(v.a)
    [] v.t = "string" -> Len(v.s)
    [] OTHER -> 0

\* ------------------------------------------------------------------ text
sALG == <<97, 108, 103>>              \* alg
sB64 == <<98, 54, 52>>                \* b64
sCRIT == <<99, 114, 105, 116>>        \* crit
sEdDSA == <<69, 100, 68, 83, 65>>     \* EdDSA
sRS256 == <<82, 83, 50, 53, 54>>      \* RS256
sEXTRA == <<101, 120, 116, 114, 97>>  \* extra
sTRUE == <<116, 114, 117, 101>>       \* true
sFALSE == <<102, 97, 108, 115, 101>>  \* false
sNULL == <<110, 117, 108, 108>>       \* null

RECURSIVE Join(_, _)
\* parts joined by sep
Join(parts, sep) ==
  IF Len(parts) = 0 THEN <<>>
  ELSE IF Len(parts) = 1 THEN parts[1]
  ELSE parts[1] \o sep \o Join(Tail(parts), sep)

RECURSIVE Digits(_)
\* decimal digits of a natural number
Digits(n) == IF n < 10 THEN <<48 + n>> ELSE Digits(n \div 10) \o <<48 + (n % 10)>>

\* s.includes(c) for a single character c
Includes(s, c) == \E i \in 1..Len(s) : s[i] = c

RECURSIVE Split(_, _)
\* s.split(c): the pieces of s between occurrences of c; always at least one
Split(s, c) ==
  IF ~Includes(s, c) THEN <<s>>
  ELSE LET i == CHOOSE k \in 1..Len(s) :
                  s[k] = c /\ \A j \in 1..(k - 1) : s[j] # c
       IN <<SubSeq(s, 1, i - 1)>> \o Split(SubSeq(s, i + 1, Len(s)), c)

\* new TextEncoder().encode(s) and new TextDecoder().decode(b) on ASCII
TextEncode(s) == s
TextDecode(b) == [i \in 1..Len(b) |-> IF b[i] < 128 THEN b[i] ELSE 65533]

\* ------------------------------------------------------------------ JSON
RECURSIVE Stringify(_)
\* JSON.stringify(v) for v not undefined: compact, members in insertion
\* order, undefined members dropped, undefined elements written null.
Stringify(v) ==
  CASE v.t = "string" -> <<34>> \o v.s \o <<34>>
    [] v.t = "boolean" -> IF v.b THEN sTRUE ELSE sFALSE
    [] v.t = "number" -> Digits(v.n)
    [] v.t = "array" ->
         <<91>> \o Join([i \in 1..Len(v.a) |->
                           IF v.a[i].t = "undefined" THEN sNULL
                           ELSE Stringify(v.a[i])], <<44>>) \o <<93>>
    [] v.t = "object" ->
         LET kept == SelectSeq(v.m, LAMBDA kv : kv[2].t # "undefined")
         IN <<123>> \o Join([i \in 1..Len(kept) |->
                               <<34>> \o kept[i][1] \o <<34, 58>>
                                 \o Stringify(kept[i][2])], <<44>>) \o <<125>>
    [] OTHER -> sNULL

ParseFail == [ok |-> FALSE, v |-> Undefined, i |-> 0]
ParseOk(v, i) == [ok |-> TRUE, v |-> v, i |-> i]

RECURSIVE SkipWs(_, _)
\* first index at or after i that holds no JSON whitespace
SkipWs(s, i) ==
  IF i <= Len(s) /\ s[i] \in {32, 9, 10, 13} THEN SkipWs(s, i + 1) ELSE i

RECURSIVE StringEnd(_, _)
\* index of the quote closing a string whose content starts at i; 0 if none
\* (a control character ends the parse; escapes are outside the alphabet)
StringEnd(s, i) ==
  IF i > Len(s) THEN 0
  ELSE IF s[i] = 34 THEN i
  ELSE IF s[i] = 92 \/ s[i] < 32 THEN 0
  ELSE StringEnd(s, i + 1)

RECURSIVE DigitsEnd(_, _)
\* last index of the run of digits starting at i
DigitsEnd(s, i) ==
  IF i + 1 <= Len(s) /\ s[i + 1] \in 48..57 THEN DigitsEnd(s, i + 1) ELSE i

RECURSIVE DigitsValue(_)
DigitsValue(d) ==
  IF Len(d) = 0 THEN 0
  ELSE 10 * DigitsValue(SubSeq(d, 1, Len(d) - 1)) + (d[Len(d)] - 48)

StartsWith(s, i, lit) ==
  /\ i + Len(lit) - 1 <= Len(s)
  /\ SubSeq(s, i, i + Len(lit) - 1) = lit

\* obj[k] = v on the member list: a repeated key keeps its place and takes
\* the last value
PutMember(m, k, v) ==
  IF \E i \in 1..Len(m) : m[i][1] = k
  THEN [i \in 1..Len(m) |-> IF m[i][1] = k THEN <<k, v>> ELSE m[i]]
  ELSE Append(m, <<k, v>>)

ParseString(s, i) ==
  IF i <= Len(s) /\ s[i] = 34
  THEN LET e == StringEnd(s, i + 1)
       IN IF e = 0 THEN ParseFail ELSE ParseOk(Str(SubSeq(s, i + 1, e - 1)), e + 1)
  ELSE ParseFail

RECURSIVE ParseValue(_, _)
RECURSIVE ParseMembers(_, _, _)
RECURSIVE ParseElements(_, _, _)

\* the members of an object from index i on (after '{' or ','), added to m
ParseMembers(s, i, m) ==
  LET k == ParseString(s, SkipWs(s, i))
      c == IF k.ok THEN SkipWs(s, k.i) ELSE 0
      v == IF k.ok /\ c <= Len(s) /\ s[c] = 58 THEN ParseValue(s, c + 1) ELSE ParseFail
      e == IF v.ok THEN SkipWs(s, v.i) ELSE 0
  IN IF ~v.ok \/ e > Len(s) THEN ParseFail
     ELSE IF s[e] = 44 THEN ParseMembers(s, e + 1, PutMember(m, k.v.s, v.v))
     ELSE IF s[e] = 125 THEN ParseOk(Obj(PutMember(m, k.v.s, v.v)), e + 1)
     ELSE ParseFail

\* the elements of an array from index i on (after '[' or ','), added to a
ParseElements(s, i, a) ==
  LET v == ParseValue(s, i)
      e == IF v.ok THEN SkipWs(s, v.i) ELSE 0
  IN IF ~v.ok \/ e > Len(s) THEN ParseFail
     ELSE IF s[e] = 44 THEN ParseElements(s, e + 1, Append(a, v.v))
     ELSE IF s[e] = 93 THEN ParseOk(Arr(Append(a, v.v)), e + 1)
     ELSE ParseFail

ParseValue(s, i0) ==
  LET i == SkipWs(s, i0)
  IN IF i > Len(s) THEN ParseFail
     ELSE CASE s[i] = 34 -> ParseString(s, i)
            [] s[i] = 123 ->
                 LET j == SkipWs(s, i + 1)
                 IN IF j <= Len(s) /\ s[j] = 125 THEN ParseOk(Obj(<<>>), j + 1)
                    ELSE ParseMembers(s, i + 1, <<>>)
            [] s[i] = 91 ->
                 LET j == SkipWs(s, i + 1)
                 IN IF j <= Len(s) /\ s[j] = 93 THEN ParseOk(Arr(<<>>), j + 1)
                    ELSE ParseElements(s, i + 1, <<>>)
            [] StartsWith(s, i, sTRUE) -> ParseOk(Bool(TRUE), i + 4)
            [] StartsWith(s, i, sFALSE) -> ParseOk(Bool(FALSE), i + 5)
            [] StartsWith(s, i, sNULL) -> ParseOk(Null, i + 4)
            [] s[i] \in 49..57 \/ (s[i] = 48 /\ DigitsEnd(s, i) = i) ->
                 LET e == DigitsEnd(s, i)
                 IN ParseOk(Num(DigitsValue(SubSeq(s, i, e))), e + 1)
            [] OTHER -> ParseFail

\* JSON.parse(s): the value, or a failure (JSON.parse throws SyntaxError)
JsonParse(s) ==
  LET r == ParseValue(s, 1)
  IN IF r.ok /\ SkipWs(s, r.i) = Len(s) + 1 THEN r ELSE ParseFail

\* ------------------------------------------------------------- base64url
\* the character of a 6-bit value: A-Z a-z 0-9 - _
B64Char(v) ==
  IF v < 26 THEN 65 + v
  ELSE IF v < 52 THEN 71 + v
  ELSE IF v < 62 THEN v - 4
  ELSE IF v = 62 THEN 45 ELSE 95

IsB64Char(c) == c \in (65..90) \cup (97..122) \cup (48..57) \cup {45, 95}

\* the 6-bit value of a character of the alphabet
B64Value(c) ==
  IF c \in 65..90 THEN c - 65
  ELSE IF c \in 97..122 THEN c - 71
  ELSE IF c \in 48..57 THEN c + 4
  ELSE IF c = 45 THEN 62 ELSE 63

RECURSIVE EncodeBytes(_)
\* base64url of bytes, unpadded
EncodeBytes(b) ==
  IF Len(b) = 0 THEN <<>>
  ELSE IF Len(b) = 1
    THEN <<B64Char(b[1] \div 4), B64Char((b[1] % 4) * 16)>>
  ELSE IF Len(b) = 2
    THEN <<B64Char(b[1] \div 4), B64Char((b[1] % 4) * 16 + b[2] \div 16),
           B64Char((b[2] % 16) * 4)>>
  ELSE <<B64Char(b[1] \div 4), B64Char((b[1] % 4) * 16 + b[2] \div 16),
         B64Char((b[2] % 16) * 4 + b[3] \div 64), B64Char(b[3] % 64)>>
         \o EncodeBytes(SubSeq(b, 4, Len(b)))

RECURSIVE DecodeChars(_)
\* the bytes of unpadded base64url text; the bits of a last character that
\* fill no whole byte are dropped
DecodeChars(s) ==
  IF Len(s) < 2 THEN <<>>
  ELSE LET v1 == B64Value(s[1])
           v2 == B64Value(s[2])
           b1 == v1 * 4 + v2 \div 16
       IN IF Len(s) = 2 THEN <<b1>>
          ELSE LET v3 == B64Value(s[3])
                   b2 == (v2 % 16) * 16 + v3 \div 4
               IN IF Len(s) = 3 THEN <<b1, b2>>
                  ELSE <<b1, b2, (v3 % 4) * 64 + B64Value(s[4])>>
                         \o DecodeChars(SubSeq(s, 5, Len(s)))

\* text the codec decodes without complaint in every build
WellFormedB64(s) == (\A i \in 1..Len(s) : IsB64Char(s[i])) /\ Len(s) % 4 # 1

\* encode(input) of base64url-universal: text is UTF-8 encoded first
Encode(input) ==
  IF input.t = "string" THEN EncodeBytes(TextEncode(input.s)) ELSE EncodeBytes(input.b)

\* decode(input) of base64url-universal: anything but text throws TypeError
Bytes(b) == [t |-> "bytes", b |-> b]
Decode(input) ==
  IF input.t = "string" THEN [ok |-> TRUE, b |-> DecodeChars(input.s)]
  ELSE [ok |-> FALSE, b |-> <<>>]

\* ------------------------------------------------------- collaborators
\* Key material is named by one byte.  SignerKey is the key behind the
\* suite's signer capability.
Keys == {1, 2}
SignerKey == CHOOSE k \in Keys : \A j \in Keys : k <= j

\* signer.sign({data}) of a signer holding key k: an ideal signature scheme,
\* the signature determines the key and the signed bytes.
SignatureOf(k, data) == <<k>> \o data

\* verifier.verify({data, signature}) of a verifier holding key k
VerifierAccepts(k, data, signature) == signature = SignatureOf(k, data)

\* A verification method document, as far as the key adapter reads it.
VerificationMethods == {[t |-> "object", publicKey |-> k] : k \in Keys}

\* LDKeyClass.from(verificationMethod): the key handle of the document
KeyFrom(verificationMethod) == verificationMethod.publicKey

\* ------------------------------------------------------------- the suite
SignerWithoutSign == [t |-> "object", sign |-> "undefined"]
SignerWithSign == [t |-> "object", sign |-> "function"]
VerifierOf(k) == [t |-> "object", key |-> k]

Algs == {Str(sEdDSA), Undefined}
Suites ==
  [alg : Algs,
   signer : {Undefined, SignerWithoutSign, SignerWithSign},
   verifier : {Undefined} \cup {VerifierOf(k) : k \in Keys}]

\* ---------------------------------------------------------------- errors
ConfigurationError ==
  [name |-> "Error", message |-> "A signer API has not been specified."]
FormatError ==
  [name |-> "TypeError",
   message |-> "The proof does not include a valid jws property."]
HeaderParseError ==
  [name |-> "Error", message |-> "Could not parse JWS header; "]
HeaderNotObjectError == [name |-> "Error", message |-> "Invalid JWS header."]
HeaderValidationError ==
  [name |-> "Error", message |-> "Invalid JWS header parameters for "]
\* thrown by the codec's decode() when handed something that is no text
CodecTypeError == [name |-> "TypeError", message |-> "input must be a string."]
\* whatever the signer capability rejects with
SignerError == [name |-> "Error", message |-> "signer failed"]

NoResult == [kind |-> "none"]
Returned(v) == [kind |-> "return", v |-> v]
Thrown(e) == [kind |-> "throw", e |-> e]
\* a reference to proof object p
Ref(p) == [t |-> "ref", p |-> p]

\* ------------------------------------------------------------ pure steps
\* sign's guard without the typeof test: any signer object passes
SignerPresent(s) == Truthy(s.signer)

\* sign, line 317: this.signer && typeof this.signer.sign === 'function'
SignerUsable(s) == Truthy(s.signer) /\ s.signer.sign = "function"

\* the header of the payload-included mode, b64: true
JwsHeaderB64True(s) ==
  Obj(<< <<sALG, s.alg>>, <<sB64, Bool(TRUE)>>, <<sCRIT, Arr(<<Str(sB64)>>)>> >>)

\* sign, lines 321-325: the header is built from the suite's alg alone
JwsHeader(s) ==
  Obj(<< <<sALG, s.alg>>, <<sB64, Bool(FALSE)>>, <<sCRIT, Arr(<<Str(sB64)>>)>> >>)

\* the signing input without the payload
CreateJwsHeaderOnly(encodedHeader, verifyData) ==
  TextEncode(encodedHeader \o <<Dot>>)

\* _createJws: the bytes of encodedHeader + '.', then the payload bytes
CreateJws(encodedHeader, verifyData) ==
  TextEncode(encodedHeader \o <<Dot>>) \o verifyData

\* the compact form with one '.' between header and signature
DetachedJwsOneDot(encodedHeader, signature) ==
  encodedHeader \o <<Dot>> \o Encode(Bytes(signature))

\* sign, lines 347-348: encodedHeader + '..' + encode(signature)
DetachedJws(encodedHeader, signature) ==
  encodedHeader \o <<Dot, Dot>> \o Encode(Bytes(signature))

\* sign, line 348: proof.jws = ...
ProofAfterSign(proof, jws) == [proof EXCEPT !.jws = Str(jws)]

\* a failing sign that drops the jws the proof had
ProofWithoutJws(proof) == [proof EXCEPT !.jws = Undefined]

\* sign, line 344: a rejection of the signer leaves the function before
\* line 348 is reached
ProofAfterSignerRejects(proof) == proof

\* the format gate without the test for '.'
JwsFormatOkNoDotCheck(jws) == Truthy(jws) /\ TypeOf(jws) = "string"

\* verifySignature, lines 361-362
JwsFormatOk(jws) ==
  Truthy(jws) /\ TypeOf(jws) = "string" /\ Includes(jws.s, Dot)

\* the destructuring of line 366: the i-th piece, undefined when there is none
Piece(parts, i) == IF i <= Len(parts) THEN Str(parts[i]) ELSE Undefined

\* verifySignature, line 371: JSON.parse(utf8decoder.decode(decode(h)))
DecodeHeader(encodedHeader) ==
  LET raw == Decode(encodedHeader)
  IN IF raw.ok THEN JsonParse(TextDecode(raw.b)) ELSE ParseFail

\* verifySignature, line 375
HeaderIsObject(header) == Truthy(header) /\ TypeOf(header) = "object"

\* the header test without the length of crit
HeaderRejectedAnyCritLength(header, s) ==
  /\ ~( /\ StrictEquals(GetProp(header, sALG), s.alg)
        /\ StrictEquals(GetProp(header, sB64), Bool(FALSE))
        /\ GetProp(header, sCRIT).t = "array"
        /\ Len(GetProp(header, sCRIT).a) >= 1
        /\ StrictEquals(GetProp(header, sCRIT).a[1], Str(sB64)) )
  /\ KeyCount(header) = 3

\* verifySignature, lines 380-382: the condition under which the header is
\* refused, with the operator precedence of the source
HeaderRejected(header, s) ==
  /\ ~( /\ StrictEquals(GetProp(header, sALG), s.alg)
        /\ StrictEquals(GetProp(header, sB64), Bool(FALSE))
        /\ GetProp(header, sCRIT).t = "array"
        /\ Len(GetProp(header, sCRIT).a) = 1
        /\ StrictEquals(GetProp(header, sCRIT).a[1], Str(sB64)) )
  /\ KeyCount(header) = 3

\* verifySignature, line 392: let {verifier} = this; if(!verifier) ...
HasVerifier(s) == Truthy(s.verifier)

\* ---------------------------------------------------------------- inputs
PayloadBytes == {104, 255}
\* verifyData: every byte string over PayloadBytes up to MaxPayloadLen
Payloads == UNION {[1..n -> PayloadBytes] : n \in 0..MaxPayloadLen}

\* Header texts a caller may put behind a jws, for a suite s.
ValidHeader(s) == JwsHeader(s)
WithMember(h, k, v) == Obj(PutMember(h.m, k, v))
WithoutMember(h, k) == Obj(SelectSeq(h.m, LAMBDA kv : kv[1] # k))
CraftedHeaderTexts(s) ==
  LET h == ValidHeader(s)
  IN { Stringify(h),
       \* the same header written with whitespace
       <<123, 32>> \o Tail(Stringify(h)),
       \* a fourth key
       Stringify(WithMember(WithMember(h, sALG, s.alg), sEXTRA, Num(1))),
       Stringify(WithMember(WithMember(h, sALG, Str(sEdDSA)), sEXTRA, Num(1))),
       \* another alg
       Stringify(WithMember(h, sALG, Str(sRS256))),
       \* another alg and a fourth key
       Stringify(WithMember(WithMember(h, sALG, Str(sRS256)), sEXTRA, Num(1))),
       \* b64: true
       Stringify(WithMember(WithMember(h, sALG, Str(sEdDSA)), sB64, Bool(TRUE))),
       \* crit: ["b64","extra"], and crit: "b64"
       Stringify(WithMember(WithMember(h, sALG, Str(sEdDSA)), sCRIT,
                            Arr(<<Str(sB64), Str(sEXTRA)>>))),
       Stringify(WithMember(WithMember(h, sALG, Str(sEdDSA)), sCRIT, Str(sB64))),
       \* fewer than three keys
       Stringify(WithoutMember(WithoutMember(h, sCRIT), sALG)),
       Stringify(Obj(<<>>)),
       \* arrays, null, and text that is no JSON
       Stringify(Arr(<<>>)),
       Stringify(Arr(<<Num(1), Num(2), Num(3)>>)),
       sNULL,
       <<123>> }

\* a signature segment that no signer produced
ForgedSignature == EncodeBytes(<<1, 2>>)

\* What a caller may leave in proof.jws before handing the proof over.
CraftedJws(s) ==
  { Undefined, Null, Num(5), Str(<<>>),
    \* no '.', one '.', and a '.' at the end
    Str(Encode(Str(Stringify(ValidHeader(s))))),
    Str(Encode(Str(Stringify(ValidHeader(s)))) \o <<Dot>> \o ForgedSignature),
    Str(Encode(Str(Stringify(ValidHeader(s)))) \o <<Dot>>) }
  \cup { Str(Encode(Str(t)) \o <<Dot, Dot>> \o ForgedSignature) :
           t \in CraftedHeaderTexts(s) }

\* the same, tabulated once per suite
CraftedJwsOf == [s \in Suites |-> CraftedJws(s)]

\* proof.verificationMethod, a field sign() has no business with
ProofMethods == {Undefined, Str(<<107, 49>>)}

\* ----------------------------------------------------------------- state
Calls == {1}
Proofs == {1}

VARIABLES
  suite,       \* the suite's configuration (this.alg, this.signer, this.verifier)
  proofs,      \* the caller's proof objects: [jws, verificationMethod]
  calls,       \* the frame of each sign / verifySignature call
  signedOver   \* history: what the last sign() wrote into each proof
vars == <<suite, proofs, calls, signedOver>>

NotSigned == [signed |-> FALSE]
Idle ==
  [op |-> "none", pc |-> "idle", proof |-> 0, proof0 |-> Undefined,
   verifyData |-> <<>>, verificationMethod |-> Undefined,
   encodedHeader |-> Undefined, header |-> Undefined,
   encodedSignature |-> Undefined, signature |-> Undefined,
   data |-> Undefined, verifier |-> Undefined, invoked |-> <<>>,
   origin |-> NotSigned, result |-> NoResult]

Init ==
  /\ suite \in Suites
  /\ proofs \in [Proofs -> [jws : {Undefined}, verificationMethod : ProofMethods]]
  /\ calls = [c \in Calls |-> Idle]
  /\ signedOver = [p \in Proofs |-> NotSigned]

\* no call holds proof p
Free(p) ==
  \A c \in DOMAIN calls : calls[c].pc = "idle" \/ calls[c].proof # p

\* ---------------------------------------------------------------- caller
\* The caller writes proof.jws itself.
CallerSetsJws(p, v) ==
  /\ Free(p)
  /\ proofs[p].jws # v
  /\ proofs' = [proofs EXCEPT ![p].jws = v]
  /\ signedOver' = [signedOver EXCEPT ![p] = NotSigned]
  /\ UNCHANGED <<suite, calls>>

\* the character of the base64url alphabet next to c: one bit of its 6-bit
\* value flipped
FlipBit(c) ==
  LET v == B64Value(c) IN B64Char(IF v % 2 = 0 THEN v + 1 ELSE v - 1)
Alterations == {"first", "last", "empty"}
Altered(seg, how) ==
  CASE how = "empty" \/ Len(seg) = 0 -> <<>>
    [] how = "first" -> <<FlipBit(seg[1])>> \o Tail(seg)
    [] OTHER -> SubSeq(seg, 1, Len(seg) - 1) \o <<FlipBit(seg[Len(seg)])>>

\* Somebody alters the signature segment of a jws that sign() wrote, and
\* leaves the header segment alone.
TamperSignature(p, how) ==
  /\ Free(p)
  /\ signedOver[p].signed /\ signedOver[p].intact
  /\ LET parts == Split(proofs[p].jws.s, Dot)
         jws == parts[1] \o <<Dot, Dot>> \o Altered(parts[3], how)
     IN /\ Len(parts) >= 3
        /\ jws # proofs[p].jws.s
        /\ proofs' = [proofs EXCEPT ![p].jws = Str(jws)]
  /\ signedOver' = [signedOver EXCEPT ![p].intact = FALSE]
  /\ UNCHANGED <<suite, calls>>

\* The caller takes the outcome of a finished call.
TakeResult(c) ==
  /\ calls[c].pc = "done"
  /\ calls' = [calls EXCEPT ![c] = Idle]
  /\ UNCHANGED <<suite, proofs, signedOver>>

\* ------------------------------------------------------------------ sign
\* sign({verifyData, proof}) up to `await this.signer.sign({data})`
SignFrame(s, p, proof, verifyData) ==
  LET f == [Idle EXCEPT !.op = "sign", !.proof = p, !.proof0 = proof,
                        !.verifyData = verifyData]
  IN IF ~SignerUsable(s)
     THEN [f EXCEPT !.pc = "done", !.result = Thrown(ConfigurationError)]
     ELSE LET encodedHeader == Encode(Str(Stringify(JwsHeader(s))))
              data == CreateJws(encodedHeader, verifyData)
          IN [f EXCEPT !.pc = "awaitSigner",
                       !.header = JwsHeader(s),
                       !.encodedHeader = Str(encodedHeader),
                       !.data = Bytes(data),
                       !.invoked = <<[who |-> "signer", data |-> data]>>]

SignStart(c, p, verifyData) ==
  /\ calls[c].pc = "idle"
  /\ Free(p)
  /\ calls' = [calls EXCEPT ![c] = SignFrame(suite, p, proofs[p], verifyData)]
  /\ UNCHANGED <<suite, proofs, signedOver>>

\* sign with the signing input kept in one place for the whole suite: the
\* resumption signs the input of another call that waits for the signer
SignerResolvesSharedData(c) ==
  /\ calls[c].pc = "awaitSigner"
  /\ LET f == calls[c]
         waiting == {k \in DOMAIN calls \ {c} : calls[k].pc = "awaitSigner"}
         data == IF waiting = {} THEN f.data.b
                 ELSE calls[CHOOSE k \in waiting : TRUE].data.b
         signature == SignatureOf(SignerKey, data)
         jws == DetachedJws(f.encodedHeader.s, signature)
     IN /\ proofs' = [proofs EXCEPT ![f.proof] = ProofAfterSign(@, jws)]
        /\ calls' = [calls EXCEPT ![c] =
                       [f EXCEPT !.pc = "done", !.signature = Bytes(signature),
                                 !.result = Returned(Ref(f.proof))]]
        /\ signedOver' = [signedOver EXCEPT ![f.proof] =
                            [signed |-> TRUE, intact |-> TRUE,
                             verifyData |-> f.verifyData, key |-> SignerKey,
                             signature |-> signature]]
  /\ UNCHANGED suite

\* the signer resolves: lines 347-349
SignerResolves(c) ==
  /\ calls[c].pc = "awaitSigner"
  /\ LET f == calls[c]
         signature == SignatureOf(SignerKey, f.data.b)
         jws == DetachedJws(f.encodedHeader.s, signature)
     IN /\ proofs' = [proofs EXCEPT ![f.proof] = ProofAfterSign(@, jws)]
        /\ calls' = [calls EXCEPT ![c] =
                       [f EXCEPT !.pc = "done", !.signature = Bytes(signature),
                                 !.result = Returned(Ref(f.proof))]]
        /\ signedOver' = [signedOver EXCEPT ![f.proof] =
                            [signed |-> TRUE, intact |-> TRUE,
                             verifyData |-> f.verifyData, key |-> SignerKey,
                             signature |-> signature]]
  /\ UNCHANGED suite

\* the signer rejects: the await of line 344 throws what it rejected with
SignerRejects(c) ==
  /\ calls[c].pc = "awaitSigner"
  /\ LET f == calls[c]
     IN /\ proofs' = [proofs EXCEPT ![f.proof] = ProofAfterSignerRejects(@)]
        /\ calls' = [calls EXCEPT ![c] =
                       [f EXCEPT !.pc = "done", !.result = Thrown(SignerError)]]
        /\ signedOver' = IF proofs' = proofs THEN signedOver
                         ELSE [signedOver EXCEPT ![f.proof] = NotSigned]
  /\ UNCHANGED suite

\* ------------------------------------------------------- verifySignature
\* the call of verifier.verify({data, signature}) on a verifier holding key k
VerifierCall(k, explicit, data, signature) ==
  [who |-> "verifier", key |-> k, explicit |-> explicit,
   data |-> data, signature |-> signature]

\* verifySignature({verifyData, verificationMethod, proof}) up to its first
\* await, or to the throw that ends it
VerifyFrame(s, p, proof, verifyData, verificationMethod, origin) ==
  LET f == [Idle EXCEPT !.op = "verify", !.proof = p, !.proof0 = proof,
                        !.verifyData = verifyData,
                        !.verificationMethod = verificationMethod,
                        !.origin = origin]
      stop(g, e) == [g EXCEPT !.pc = "done", !.result = Thrown(e)]
  IN IF ~JwsFormatOk(proof.jws) THEN stop(f, FormatError)
     ELSE
     LET parts == Split(proof.jws.s, Dot)
         encodedHeader == Piece(parts, 1)
         encodedSignature == Piece(parts, 3)
         parsed == DecodeHeader(encodedHeader)
         f1 == [f EXCEPT !.encodedHeader = encodedHeader,
                         !.encodedSignature = encodedSignature]
     IN IF ~parsed.ok THEN stop(f1, HeaderParseError)
        ELSE
        LET header == parsed.v
            f2 == [f1 EXCEPT !.header = header]
        IN IF ~HeaderIsObject(header) THEN stop(f2, HeaderNotObjectError)
           ELSE IF HeaderRejected(header, s) THEN stop(f2, HeaderValidationError)
           ELSE
           LET signature == Decode(encodedSignature)
               data == CreateJws(encodedHeader.s, verifyData)
               f3 == [f2 EXCEPT !.signature = Bytes(signature.b),
                                !.data = Bytes(data)]
           IN IF ~signature.ok THEN stop(f2, CodecTypeError)
              ELSE IF HasVerifier(s)
              THEN [f3 EXCEPT !.pc = "awaitVerifier",
                              !.verifier = s.verifier,
                              !.invoked = <<VerifierCall(s.verifier.key, TRUE,
                                                         data, signature.b)>>]
              ELSE [f3 EXCEPT !.pc = "awaitAdapter",
                              !.invoked = <<[who |-> "keyAdapter",
                                             verificationMethod |->
                                               verificationMethod]>>]

VerifyStart(c, p, verifyData, verificationMethod) ==
  /\ calls[c].pc = "idle"
  /\ Free(p)
  /\ calls' = [calls EXCEPT ![c] =
                 VerifyFrame(suite, p, proofs[p], verifyData,
                             verificationMethod, signedOver[p])]
  /\ UNCHANGED <<suite, proofs, signedOver>>

\* LDKeyClass.from() resolves: lines 395-397, key.verifier() and the call
\* of its verify()
AdapterResolves(c) ==
  /\ calls[c].pc = "awaitAdapter"
  /\ LET f == calls[c]
         key == KeyFrom(f.verificationMethod)
     IN calls' = [calls EXCEPT ![c] =
                    [f EXCEPT !.pc = "awaitVerifier",
                              !.verifier = VerifierOf(key),
                              !.invoked = Append(@, VerifierCall(key, FALSE,
                                                   f.data.b, f.signature.b))]]
  /\ UNCHANGED <<suite, proofs, signedOver>>

\* what verifySignature hands back of the verifier's answer: line 397
VerifyResult(answer) == Returned(Bool(answer))

\* the verifier resolves with its answer
VerifierResolves(c) ==
  /\ calls[c].pc = "awaitVerifier"
  /\ LET f == calls[c]
         call == f.invoked[Len(f.invoked)]
         answer == VerifierAccepts(call.key, call.data, call.signature)
     IN calls' = [calls EXCEPT ![c] =
                    [f EXCEPT !.pc = "done", !.result = VerifyResult(answer)]]
  /\ UNCHANGED <<suite, proofs, signedOver>>

\* --------------------------------------------------------- specification
Next ==
  \/ \E p \in Proofs : \E v \in CraftedJwsOf[suite] : CallerSetsJws(p, v)
  \/ \E p \in Proofs : \E how \in Alterations : TamperSignature(p, how)
  \/ \E c \in Calls : \E p \in Proofs : \E d \in Payloads : SignStart(c, p, d)
  \/ \E c \in Calls : SignerResolves(c)
  \/ \E c \in Calls : SignerRejects(c)
  \/ \E c \in Calls : \E p \in Proofs : \E d \in Payloads :
       \E vm \in VerificationMethods : VerifyStart(c, p, d, vm)
  \/ \E c \in Calls : AdapterResolves(c)
  \/ \E c \in Calls : VerifierResolves(c)
  \/ \E c \in Calls : TakeResult(c)

Spec == Init /\ [][Next]_vars

\* ================================================ verification methods
\* assertVerificationMethod, getVerificationMethod and matchProof.  The
\* documents are JSON documents: members hold strings, booleans, null,
\* arrays and objects, never the value undefined.
sCONTEXT == <<64, 99, 111, 110, 116, 101, 120, 116>>   \* @context
sTYPE == <<116, 121, 112, 101>>                        \* type
sREVOKED == <<114, 101, 118, 111, 107, 101, 100>>      \* revoked
sID == <<105, 100>>                                    \* id
sSuiteContext == <<99, 49>>    \* c1: stands for the suite's context URL
sOtherContext == <<99, 50>>    \* c2: stands for any other context URL
sKeyType == <<75, 49>>         \* K1: stands for the required key type
sOtherType == <<75, 50>>       \* K2: stands for any other key type
sKeyId == <<107, 49>>          \* k1: stands for the id of the suite's key
sOtherId == <<107, 50>>        \* k2: stands for the id of another key
sDate == <<50, 48>>            \* 20: stands for a revocation date

\* Array.isArray(v)
IsArray(v) == v.t = "array"

\* a.includes(v): SameValueZero, here === (no NaN among the values)
ArrayIncludes(a, v) == \E i \in 1..Len(a.a) : StrictEquals(a.a[i], v)

\* the context test on the string form alone
IncludesContextStringOnly(document, contextUrl) ==
  StrictEquals(GetProp(document, sCONTEXT), contextUrl)

\* _includesContext, lines 248-252
IncludesContext(document, contextUrl) ==
  LET context == GetProp(document, sCONTEXT)
  IN \/ StrictEquals(context, contextUrl)
     \/ (IsArray(context) /\ ArrayIncludes(context, contextUrl))

\* jsonld.hasValue(subject, property, value) for a string value: the
\* property is an own member and is the value, or a non-empty array that
\* holds it
HasValue(subject, property, value) ==
  LET val == GetProp(subject, property)
  IN IF val.t = "undefined" THEN FALSE
     ELSE IF IsArray(val) THEN ArrayIncludes(val, value)
     ELSE StrictEquals(value, val)

\* reading a property of null or undefined
NullPropertyError ==
  [name |-> "TypeError", message |-> "Cannot read properties of null."]
ContextError ==
  [name |-> "TypeError",
   message |-> "The verification method (key) must contain the context."]
KeyTypeError == [name |-> "Error", message |-> "Invalid key type."]
RevokedError ==
  [name |-> "Error", message |-> "The verification method has been revoked."]

\* the revocation test by truthiness: revoked: false and null pass
RevokedTruthy(verificationMethod) ==
  Truthy(GetProp(verificationMethod, sREVOKED))

\* line 162: verificationMethod.revoked !== undefined
Revoked(verificationMethod) ==
  ~StrictEquals(GetProp(verificationMethod, sREVOKED), Undefined)

\* assertVerificationMethod, lines 145-165: what the call ends with
AssertVerificationMethod(s, verificationMethod) ==
  IF verificationMethod.t \in {"null", "undefined"}
  THEN Thrown(NullPropertyError)
  ELSE IF ~IncludesContext(verificationMethod, s.contextUrl)
  THEN Thrown(ContextError)
  ELSE IF ~HasValue(verificationMethod, sTYPE, s.requiredKeyType)
  THEN Thrown(KeyTypeError)
  ELSE IF Revoked(verificationMethod) THEN Thrown(RevokedError)
  ELSE Returned(Undefined)

\* the members a verification method document may carry
MethodContexts ==
  {Undefined, Str(sSuiteContext), Str(sOtherContext), Arr(<<>>),
   Arr(<<Str(sOtherContext)>>),
   Arr(<<Str(sOtherContext), Str(sSuiteContext)>>)}
MethodTypes ==
  {Undefined, Str(sKeyType), Str(sOtherType),
   Arr(<<Str(sOtherType), Str(sKeyType)>>)}
MethodRevocations == {Undefined, Bool(FALSE), Null, Str(sDate)}

\* the object literal with the members that are given (undefined: absent)
Document(id, context, type, revoked) ==
  Obj(SelectSeq(<< <<sID, id>>, <<sCONTEXT, context>>, <<sTYPE, type>>,
                   <<sREVOKED, revoked>> >>,
                LAMBDA kv : kv[2] # Undefined))

MethodDocuments ==
  {Document(Str(sKeyId), c, t, r) :
     c \in MethodContexts, t \in MethodTypes, r \in MethodRevocations}

\* the key a suite may be bound to: an object with an id
SuiteKey == Obj(<< <<sID, Str(sKeyId)>> >>)

\* the suites of the verification-method operations: with and without key
MethodSuites ==
  [alg : {Str(sEdDSA)}, signer : {Undefined}, verifier : {Undefined},
   key : {Undefined, SuiteKey}, contextUrl : {Str(sSuiteContext)},
   requiredKeyType : {Str(sKeyType)}]

\* a direct call of suite.assertVerificationMethod({verificationMethod}):
\* it has no await, the call ends in the step that starts it
AssertStart(c, verificationMethod) ==
  /\ calls[c].pc = "idle"
  /\ calls' = [calls EXCEPT ![c] =
                 [Idle EXCEPT !.op = "assertVerificationMethod",
                              !.pc = "done",
                              !.verificationMethod = verificationMethod,
                              !.result = AssertVerificationMethod(
                                           suite, verificationMethod)]]
  /\ UNCHANGED <<suite, proofs, signedOver>>

\* ------------------------------------------------- getVerificationMethod
MissingVerificationMethodError ==
  [name |-> "Error", message |-> "No \"verificationMethod\" found in proof."]
DocumentParseError ==
  [name |-> "SyntaxError", message |-> "Unexpected token in JSON"]
LoaderError == [name |-> "Error", message |-> "document loader failed"]

\* key.export({publicKey: true}): the public description of the key
KeyExport(key) ==
  Obj(<< <<sID, GetProp(key, sID)>>, <<sTYPE, Str(sKeyType)>> >>)

\* line 401: if(this.key)
HasKey(s) == Truthy(s.key)

\* getVerificationMethod({proof, documentLoader}) up to
\* `await documentLoader(verificationMethod)`, or to the return or throw
\* that ends it before: lines 400-417
GetMethodFrame(s, p, proof) ==
  LET f == [Idle EXCEPT !.op = "getVerificationMethod", !.proof = p,
                        !.proof0 = proof]
      stop(e) == [f EXCEPT !.pc = "done", !.result = Thrown(e)]
      given == proof.verificationMethod
  IN IF HasKey(s)
     THEN [f EXCEPT !.pc = "done", !.result = Returned(KeyExport(s.key)),
                    !.invoked = <<[who |-> "key.export"]>>]
     ELSE IF TypeOf(given) = "object" /\ given.t = "null"
     THEN stop(NullPropertyError)
     ELSE
     LET verificationMethod ==
           IF TypeOf(given) = "object" THEN GetProp(given, sID) ELSE given
     IN IF ~Truthy(verificationMethod)
        THEN stop(MissingVerificationMethodError)
        ELSE [f EXCEPT !.pc = "awaitLoader",
                       !.invoked = <<[who |-> "documentLoader",
                                      url |-> verificationMethod,
                                      answer |-> Undefined]>>]

GetMethodStart(c, p) ==
  /\ calls[c].pc = "idle"
  /\ Free(p)
  /\ calls' = [calls EXCEPT ![c] = GetMethodFrame(suite, p, proofs[p])]
  /\ UNCHANGED <<suite, proofs, signedOver>>

\* what getVerificationMethod does with the loaded document: lines 419-424.
\* assertVerificationMethod has no await of its own, so the await of line
\* 423 resumes with the outcome computed here.
MethodFromDocument(s, document) ==
  LET parsed == IF document.t = "string" THEN JsonParse(document.s)
                ELSE ParseOk(document, 0)
  IN IF ~parsed.ok THEN Thrown(DocumentParseError)
     ELSE IF AssertVerificationMethod(s, parsed.v).kind = "throw"
     THEN AssertVerificationMethod(s, parsed.v)
     ELSE Returned(parsed.v)

\* the document loader resolves with {document}
LoaderResolves(c, document) ==
  /\ calls[c].pc = "awaitLoader"
  /\ calls' = [calls EXCEPT ![c] =
                 [@ EXCEPT !.pc = "done",
                           !.invoked = <<[@[1] EXCEPT !.answer = document]>>,
                           !.result = MethodFromDocument(suite, document)]]
  /\ UNCHANGED <<suite, proofs, signedOver>>

\* the document loader rejects: the await of line 417 throws
LoaderRejects(c) ==
  /\ calls[c].pc = "awaitLoader"
  /\ calls' = [calls EXCEPT ![c] =
                 [@ EXCEPT !.pc = "done", !.result = Thrown(LoaderError)]]
  /\ UNCHANGED <<suite, proofs, signedOver>>

\* what a document loader may resolve with: a document, its JSON text, the
\* text of null, a text that is no JSON
LoadedDocuments ==
  MethodDocuments \cup {Str(Stringify(d)) : d \in MethodDocuments}
    \cup {Str(sNULL), Str(<<123>>)}

\* ------------------------------------------------------------ matchProof
BaseError == [name |-> "Error", message |-> "base matchProof failed"]

\* matchProof({proof, ...}) up to `await super.matchProof(...)`: line 448
MatchFrame(p, proof) ==
  [Idle EXCEPT !.op = "matchProof", !.pc = "awaitBase", !.proof = p,
               !.proof0 = proof,
               !.invoked = <<[who |-> "super.matchProof", proof |-> p,
                              answer |-> Undefined]>>]

MatchStart(c, p) ==
  /\ calls[c].pc = "idle"
  /\ Free(p)
  /\ calls' = [calls EXCEPT ![c] = MatchFrame(p, proofs[p])]
  /\ UNCHANGED <<suite, proofs, signedOver>>

\* lines 448-466, from the answer of the base policy on
MatchResult(s, proof, matched) ==
  LET verificationMethod == proof.verificationMethod
      keyId == GetProp(s.key, sID)
  IN IF ~matched THEN Returned(Bool(FALSE))
     ELSE IF ~HasKey(s) THEN Returned(Bool(TRUE))
     ELSE IF TypeOf(verificationMethod) = "object"
     THEN IF verificationMethod.t = "null" THEN Thrown(NullPropertyError)
          ELSE Returned(Bool(StrictEquals(GetProp(verificationMethod, sID),
                                          keyId)))
     ELSE Returned(Bool(StrictEquals(verificationMethod, keyId)))

\* the base policy resolves with its answer
BaseResolves(c, matched) ==
  /\ calls[c].pc = "awaitBase"
  /\ calls' = [calls EXCEPT ![c] =
                 [@ EXCEPT !.pc = "done",
                           !.invoked = <<[@[1] EXCEPT
                                            !.answer = Bool(matched)]>>,
                           !.result = MatchResult(suite,
                                        proofs[calls[c].proof], matched)]]
  /\ UNCHANGED <<suite, proofs, signedOver>>

\* the base policy rejects: the await of line 448 throws
BaseRejects(c) ==
  /\ calls[c].pc = "awaitBase"
  /\ calls' = [calls EXCEPT ![c] =
                 [@ EXCEPT !.pc = "done", !.result = Thrown(BaseError)]]
  /\ UNCHANGED <<suite, proofs, signedOver>>

\* ------------------------------------- specification of these operations
\* proof.verificationMethod as a caller may give it
ProofMethodValues ==
  {Undefined, Null, Str(<<>>), Str(sKeyId), Str(sOtherId), Obj(<<>>),
   Obj(<< <<sID, Str(sKeyId)>> >>), Obj(<< <<sID, Str(sOtherId)>> >>),
   Obj(<< <<sTYPE, Str(sKeyType)>> >>)}

\* The caller writes proof.verificationMethod itself.
CallerSetsMethod(p, v) ==
  /\ Free(p)
  /\ proofs[p].verificationMethod # v
  /\ proofs' = [proofs EXCEPT ![p].verificationMethod = v]
  /\ UNCHANGED <<suite, calls, signedOver>>

InitMethods ==
  /\ suite \in MethodSuites
  /\ proofs \in [Proofs -> [jws : {Undefined},
                            verificationMethod : ProofMethodValues]]
  /\ calls = [c \in Calls |-> Idle]
  /\ signedOver = [p \in Proofs |-> NotSigned]

NextMethods ==
  \/ \E p \in Proofs : \E v \in ProofMethodValues : CallerSetsMethod(p, v)
  \/ \E c \in Calls : \E d \in MethodDocuments : AssertStart(c, d)
  \/ \E c \in Calls : \E p \in Proofs : GetMethodStart(c, p)
  \/ \E c \in Calls : \E d \in LoadedDocuments : LoaderResolves(c, d)
  \/ \E c \in Calls : LoaderRejects(c)
  \/ \E c \in Calls : \E p \in Proofs : MatchStart(c, p)
  \/ \E c \in Calls : \E b \in BOOLEAN : BaseResolves(c, b)
  \/ \E c \in Calls : BaseRejects(c)
  \/ \E c \in Calls : TakeResult(c)

SpecMethods == InitMethods /\ [][NextMethods]_vars

\* ================================================== concurrent calls
\* Two calls in flight on one suite.  A call is started while every other
\* call is idle or suspended at an await, so two calls that are both in
\* flight overlap; their resumptions come in any order; the caller takes
\* the results once every call in flight has ended.
ConcurrentCalls == {1, 2}
ConcurrentProofs == {1, 2}
\* two different payloads, one byte each
ConcurrentPayloads == {<<b>> : b \in PayloadBytes}
sSuiteType == <<83, 49>>       \* S1: stands for the suite's proof type

\* a fully configured suite, with its own verifier or without
ConcurrentSuites ==
  [type : {Str(sSuiteType)}, alg : {Str(sEdDSA)}, key : {Undefined},
   signer : {SignerWithSign}, verifier : {Undefined, VerifierOf(SignerKey)},
   contextUrl : {Str(sSuiteContext)}]

InitConcurrent ==
  /\ suite \in ConcurrentSuites
  /\ proofs = [p \in ConcurrentProofs |->
                [jws |-> Undefined, verificationMethod |-> Str(sKeyId)]]
  /\ calls = [c \in ConcurrentCalls |-> Idle]
  /\ signedOver = [p \in ConcurrentProofs |-> NotSigned]

\* every call other than c is idle or suspended
OthersSuspended(c) ==
  \A k \in DOMAIN calls \ {c} : calls[k].pc # "done"

ConcurrentSignStart(c, p, verifyData) ==
  OthersSuspended(c) /\ SignStart(c, p, verifyData)

ConcurrentVerifyStart(c, p, verifyData, verificationMethod) ==
  OthersSuspended(c) /\ VerifyStart(c, p, verifyData, verificationMethod)

\* the caller takes the results of the calls in flight, all ended
TakeResults ==
  /\ \E c \in DOMAIN calls : calls[c].pc = "done"
  /\ \A c \in DOMAIN calls : calls[c].pc \in {"idle", "done"}
  /\ calls' = [c \in DOMAIN calls |-> Idle]
  /\ UNCHANGED <<suite, proofs, signedOver>>

NextConcurrent ==
  \/ \E c \in ConcurrentCalls : \E p \in ConcurrentProofs :
       \E d \in ConcurrentPayloads : ConcurrentSignStart(c, p, d)
  \/ \E c \in ConcurrentCalls : SignerResolves(c)
  \/ \E c \in ConcurrentCalls : SignerRejects(c)
  \/ \E c \in ConcurrentCalls : \E p \in ConcurrentProofs :
       \E d \in ConcurrentPayloads : \E vm \in VerificationMethods :
         ConcurrentVerifyStart(c, p, d, vm)
  \/ \E c \in ConcurrentCalls : AdapterResolves(c)
  \/ \E c \in ConcurrentCalls : VerifierResolves(c)
  \/ TakeResults

SpecConcurrent == InitConcurrent /\ [][NextConcurrent]_vars

\* ================================================================ claims
VerifyFrames == {calls[c] : c \in {k \in Calls : calls[k].op = "verify"}}
SignFrames == {calls[c] : c \in {k \in Calls : calls[k].op = "sign"}}
VerifierCalls(f) == SelectSeq(f.invoked, LAMBDA i : i.who = "verifier")
AdapterCalls(f) == SelectSeq(f.invoked, LAMBDA i : i.who = "keyAdapter")
\* the header was decoded: JSON.parse never yields undefined
HeaderDecoded(f) == f.header # Undefined
\* exactly {alg: <suite alg>, b64: false, crit: ["b64"]}
ExactHeader(h, alg) ==
  /\ h.t = "object"
  /\ Len(h.m) = 3
  /\ {h.m[i][1] : i \in 1..3} = {sALG, sB64, sCRIT}
  /\ GetProp(h, sALG) = alg
  /\ GetProp(h, sB64) = Bool(FALSE)
  /\ GetProp(h, sCRIT) = Arr(<<Str(sB64)>>)

\* C1: every decoded header (an object or an array) that is not exactly
\* {alg: <suite alg>, b64: false, crit: ["b64"]} makes verifySignature fail
\* with the header-validation error, and no key adapter or verifier is
\* invoked.  Stated for suites whose alg is a string.
C1_HeaderFailClosed ==
  \A f \in VerifyFrames :
    ( /\ suite.alg.t = "string"
      /\ HeaderDecoded(f)
      /\ f.header.t \in {"object", "array"}
      /\ ~ExactHeader(f.header, suite.alg) )
    => (f.result = Thrown(HeaderValidationError) /\ f.invoked = <<>>)

\* C2: a header with exactly three own keys whose alg differs from the
\* suite's, or whose b64 is not the boolean false, or whose crit is not the
\* one-element array ["b64"], fails with the header-validation error, and no
\* verifier (nor key adapter) is invoked.
C2_ThreeKeyHeaderValidated ==
  \A f \in VerifyFrames :
    ( /\ HeaderDecoded(f)
      /\ f.header.t \in {"object", "array"}
      /\ KeyCount(f.header) = 3
      /\ \/ GetProp(f.header, sALG) # suite.alg
         \/ GetProp(f.header, sB64) # Bool(FALSE)
         \/ GetProp(f.header, sCRIT) # Arr(<<Str(sB64)>>) )
    => (f.result = Thrown(HeaderValidationError) /\ f.invoked = <<>>)

\* C2 witness: a three-key header with crit ["b64","extra"] was refused.
C2_Witness ==
  \E f \in VerifyFrames :
    /\ HeaderDecoded(f) /\ f.header.t = "object" /\ Len(f.header.m) = 3
    /\ GetProp(f.header, sALG) = suite.alg
    /\ GetProp(f.header, sB64) = Bool(FALSE)
    /\ GetProp(f.header, sCRIT) = Arr(<<Str(sB64), Str(sEXTRA)>>)
    /\ f.result = Thrown(HeaderValidationError)

\* the key of the verifier a verifySignature call of this suite ends up with
VerifierKeyFor(f) ==
  IF suite.verifier # Undefined THEN suite.verifier.key
  ELSE f.verificationMethod.publicKey

\* C3: verifySignature over the payload d, on a proof that sign(d, proof)
\* wrote and nobody touched since, with a verifier of the signer's key,
\* throws nothing and returns true.
C3_RoundTrip ==
  \A f \in VerifyFrames :
    ( /\ f.origin.signed /\ f.origin.intact
      /\ f.verifyData = f.origin.verifyData
      /\ VerifierKeyFor(f) = f.origin.key )
    => /\ f.result.kind # "throw"
       /\ f.pc = "done" => f.result = Returned(Bool(TRUE))

\* C3 witness: such a verification of a non-empty payload has returned true.
C3_Witness ==
  \E f \in VerifyFrames :
    /\ f.origin.signed /\ f.origin.intact
    /\ f.verifyData = f.origin.verifyData /\ Len(f.verifyData) > 0
    /\ VerifierKeyFor(f) = f.origin.key
    /\ f.pc = "done" /\ f.result = Returned(Bool(TRUE))

\* the bytes the third segment of the jws a call read decodes to
SignatureSegmentBytes(f) == DecodeChars(Split(f.proof0.jws.s, Dot)[3])

\* C4 as claimed: on a proof that sign wrote over d, with the header segment
\* intact, a verifyData other than d or an altered signature segment makes
\* verifySignature return false, never throw (and never return true).
C4_AnyAlterationReturnsFalse ==
  \A f \in VerifyFrames :
    ( /\ f.origin.signed
      /\ f.verifyData # f.origin.verifyData \/ ~f.origin.intact )
    => /\ f.result.kind # "throw"
       /\ f.pc = "done" => f.result = Returned(Bool(FALSE))

\* C4 as amended: the same with "altered" read as: the signature segment is
\* well-formed base64url text that decodes to other bytes than the signature.
C4_TamperReturnsFalse ==
  \A f \in VerifyFrames :
    ( /\ f.origin.signed
      /\ WellFormedB64(Split(f.proof0.jws.s, Dot)[3])
      /\ \/ f.verifyData # f.origin.verifyData
         \/ SignatureSegmentBytes(f) # f.origin.signature )
    => /\ f.result.kind # "throw"
       /\ f.pc = "done" => f.result = Returned(Bool(FALSE))

\* C4 witness: a signature segment altered into other bytes was verified
\* against the signed payload with the signer's key, and false came back.
C4_Witness ==
  \E f \in VerifyFrames :
    /\ f.origin.signed /\ ~f.origin.intact
    /\ f.verifyData = f.origin.verifyData
    /\ VerifierKeyFor(f) = f.origin.key
    /\ Len(SignatureSegmentBytes(f)) > 0
    /\ SignatureSegmentBytes(f) # f.origin.signature
    /\ f.pc = "done" /\ f.result = Returned(Bool(FALSE))

\* C5: a jws with a '.' that splits into fewer than three segments makes
\* verifySignature fail with the format error.
C5_FewSegmentsFormatError ==
  \A f \in VerifyFrames :
    ( /\ f.pc = "done"
      /\ f.proof0.jws.t = "string"
      /\ Includes(f.proof0.jws.s, Dot)
      /\ Len(Split(f.proof0.jws.s, Dot)) < 3 )
    => f.result = Thrown(FormatError)

\* C6: a jws that is absent, empty, no string, or a string without '.' makes
\* verifySignature fail with the format error before anything else: no
\* segment is taken, no header decoded, no key adapter or verifier invoked.
C6_FormatGateFirst ==
  \A f \in VerifyFrames :
    ( \/ f.proof0.jws.t # "string"
      \/ Len(f.proof0.jws.s) = 0
      \/ \A i \in 1..Len(f.proof0.jws.s) : f.proof0.jws.s[i] # Dot )
    => /\ f.pc = "done" /\ f.result = Thrown(FormatError)
       /\ f.encodedHeader = Undefined /\ f.header = Undefined
       /\ f.invoked = <<>>

\* C6 witness: a non-empty jws without '.' was refused with the format error.
C6_Witness ==
  \E f \in VerifyFrames :
    /\ f.proof0.jws.t = "string" /\ Len(f.proof0.jws.s) > 0
    /\ \A i \in 1..Len(f.proof0.jws.s) : f.proof0.jws.s[i] # Dot
    /\ f.result = Thrown(FormatError)

\* C7: with no signer, or a signer without a callable sign, sign fails with
\* the configuration error before anything is computed: the signer is not
\* invoked, no header is built, the proof is as the caller passed it.
C7_NoSignerFailsFirst ==
  \A f \in SignFrames :
    (suite.signer = Undefined \/ suite.signer.sign # "function")
    => /\ f.pc = "done" /\ f.result = Thrown(ConfigurationError)
       /\ f.invoked = <<>>
       /\ f.header = Undefined /\ f.encodedHeader = Undefined
       /\ f.data = Undefined
       /\ proofs[f.proof] = f.proof0

\* C7 witness: a signer object without sign, and a proof that already had a
\* jws, which it kept.
C7_Witness ==
  \E f \in SignFrames :
    /\ suite.signer = SignerWithoutSign
    /\ f.proof0.jws.t = "string"
    /\ f.result = Thrown(ConfigurationError)
    /\ proofs[f.proof] = f.proof0

\* base64url(JSON({alg:"EdDSA",b64:false,crit:["b64"]})) =
\* eyJhbGciOiJFZERTQSIsImI2NCI6ZmFsc2UsImNyaXQiOlsiYjY0Il19
EdDSAHeaderSegment ==
  <<101, 121, 74, 104, 98, 71, 99, 105, 79, 105, 74, 70, 90, 69, 82, 84, 81,
    83, 73, 115, 73, 109, 73, 50, 78, 67, 73, 54, 90, 109, 70, 115, 99, 50,
    85, 115, 73, 109, 78, 121, 97, 88, 81, 105, 79, 108, 115, 105, 89, 106,
    89, 48, 73, 108, 49, 57>>
\* base64url(JSON({alg:undefined,b64:false,crit:["b64"]})) =
\* base64url({"b64":false,"crit":["b64"]}) = eyJiNjQiOmZhbHNlLCJjcml0IjpbImI2NCJdfQ
NoAlgHeaderSegment ==
  <<101, 121, 74, 105, 78, 106, 81, 105, 79, 109, 90, 104, 98, 72, 78, 108,
    76, 67, 74, 106, 99, 109, 108, 48, 73, 106, 112, 98, 73, 109, 73, 50, 78,
    67, 74, 100, 102, 81>>
HeaderSegmentOf(alg) ==
  IF alg = Str(sEdDSA) THEN EdDSAHeaderSegment ELSE NoAlgHeaderSegment

\* C8: after a successful sign, proof.jws is <header segment>..<base64url of
\* s>: the header segment is that of {alg, b64:false, crit:["b64"]} whatever
\* the proof holds, the middle segment is empty, and s is what the signer
\* returned, invoked once, on the header segment, '.', and the raw payload.
C8_DetachedJwsShape ==
  \A f \in SignFrames :
    (f.pc = "done" /\ f.result.kind = "return")
    => LET jws == proofs[f.proof].jws
           h == HeaderSegmentOf(suite.alg)
       IN /\ f.invoked = <<[who |-> "signer", data |-> h \o <<Dot>> \o f.verifyData]>>
          /\ Len(f.invoked[1].data) = Len(h) + 1 + Len(f.verifyData)
          /\ f.signature = Bytes(SignatureOf(SignerKey, f.invoked[1].data))
          /\ jws.t = "string"
          /\ Split(jws.s, Dot) = <<h, <<>>, EncodeBytes(f.signature.b)>>

\* C8 witness: a payload with a byte that is no ASCII was signed into a
\* proof that carries a verificationMethod.
C8_Witness ==
  \E f \in SignFrames :
    /\ f.pc = "done" /\ f.result.kind = "return"
    /\ f.verifyData = <<255>>
    /\ f.proof0.verificationMethod # Undefined
    /\ proofs[f.proof].jws.t = "string"

\* C9: sign changes the proof's jws and nothing else, and returns that same
\* proof; when the signer fails, its error is what sign throws, the signer
\* was invoked once, and the proof is as it was, its earlier jws included.
C9_SignFrame ==
  \A f \in SignFrames :
    /\ (f.pc = "done" /\ f.result.kind = "return")
         => /\ f.result.v = Ref(f.proof)
            /\ proofs[f.proof] = [f.proof0 EXCEPT !.jws = proofs[f.proof].jws]
            /\ proofs[f.proof].jws # Undefined
    /\ f.pc = "awaitSigner" => proofs[f.proof] = f.proof0
    /\ (f.pc = "done" /\ f.result.kind = "throw" /\ Len(f.invoked) > 0)
         => /\ f.result = Thrown(SignerError)
            /\ Len(f.invoked) = 1
            /\ proofs[f.proof] = f.proof0

\* C9 witness: the signer failed on a proof that already had a jws.
C9_Witness ==
  \E f \in SignFrames :
    /\ f.result = Thrown(SignerError)
    /\ f.proof0.jws.t = "string" /\ f.proof0.verificationMethod # Undefined
    /\ proofs[f.proof] = f.proof0

\* verifySignature threw none of the errors of its format and header gates
GatesPassed(f) ==
  /\ f.pc = "done"
  /\ f.result \notin {Thrown(FormatError), Thrown(HeaderParseError),
                      Thrown(HeaderNotObjectError), Thrown(HeaderValidationError)}

\* C10: once the format and header gates are passed, verifySignature invokes
\* one verifier once (the suite's own, without the key adapter, or the one of
\* keyAdapter.from(verificationMethod)), on the first segment of the jws as
\* it stands, '.', and verifyData, with the decoded third segment, and
\* returns the verifier's answer.
C10_OneVerifierOnce ==
  \A f \in VerifyFrames :
    GatesPassed(f)
    => /\ Len(VerifierCalls(f)) = 1
       /\ IF suite.verifier # Undefined
          THEN Len(AdapterCalls(f)) = 0 /\ VerifierCalls(f)[1].explicit
          ELSE f.invoked[1] = [who |-> "keyAdapter",
                               verificationMethod |-> f.verificationMethod]
       /\ VerifierCalls(f)[1].key = VerifierKeyFor(f)
       /\ VerifierCalls(f)[1].data =
            Split(f.proof0.jws.s, Dot)[1] \o <<Dot>> \o f.verifyData
       /\ VerifierCalls(f)[1].signature = SignatureSegmentBytes(f)
       /\ f.result = Returned(Bool(VerifierAccepts(VerifierKeyFor(f),
                                     VerifierCalls(f)[1].data,
                                     VerifierCalls(f)[1].signature)))

\* ------------------------------------------------- verification methods
AssertFrames ==
  {calls[c] : c \in {k \in Calls : calls[k].op = "assertVerificationMethod"}}
\* member k of document d is the string v, or an array holding it
HoldsString(d, k, v) ==
  LET member == GetProp(d, k)
  IN \/ member.t = "string" /\ member = v
     \/ member.t = "array" /\ \E i \in 1..Len(member.a) : member.a[i] = v
\* document d has an own member named k
HasMember(d, k) == \E i \in 1..Len(d.m) : d.m[i][1] = k
\* the three conditions on a verification method
MethodAcceptable(d) ==
  /\ HoldsString(d, sCONTEXT, suite.contextUrl)
  /\ HoldsString(d, sTYPE, suite.requiredKeyType)
  /\ ~HasMember(d, sREVOKED)

\* C11: assertVerificationMethod succeeds exactly when the method's @context
\* (a string or an array) includes the suite's contextUrl, its type matches
\* the required key type and it has no revoked member; otherwise it throws,
\* in particular on revoked: false and revoked: null with a valid context
\* and type, and on a method failing several of the checks.
C11_AssertVerificationMethod ==
  \A f \in AssertFrames :
    /\ f.pc = "done"
    /\ f.result.kind \in {"return", "throw"}
    /\ f.result.kind = "return" <=> MethodAcceptable(f.verificationMethod)
    /\ HasMember(f.verificationMethod, sREVOKED) => f.result.kind = "throw"

\* a method with a valid context and type and revoked: false was refused
C11_Witness ==
  \E f \in AssertFrames :
    /\ HoldsString(f.verificationMethod, sCONTEXT, suite.contextUrl)
    /\ HoldsString(f.verificationMethod, sTYPE, suite.requiredKeyType)
    /\ GetProp(f.verificationMethod, sREVOKED) = Bool(FALSE)
    /\ f.result = Thrown(RevokedError)

GetMethodFrames ==
  {calls[c] : c \in {k \in Calls : calls[k].op = "getVerificationMethod"}}
LoaderCalls(f) == SelectSeq(f.invoked, LAMBDA i : i.who = "documentLoader")
\* the identifier proof.verificationMethod yields: a string itself, the id
\* of an object, nothing otherwise
IdentifierOf(v) ==
  CASE v.t = "string" -> v
    [] v.t = "object" -> GetProp(v, sID)
    [] OTHER -> Undefined
YieldsIdentifier(v) == Truthy(IdentifierOf(v))

\* C12: a getVerificationMethod call invokes the document loader exactly
\* once when the suite holds no key and proof.verificationMethod yields an
\* identifier, and never otherwise; with a key it returns the key's public
\* export; with no identifier (absent, null, empty, object without id) it
\* throws the missing-verification-method error; a method resolved by the
\* loader is returned only if assertVerificationMethod passes on it.
C12_LoaderOncePerCall ==
  \A f \in GetMethodFrames :
    LET given == f.proof0.verificationMethod
    IN /\ Len(LoaderCalls(f)) =
            IF ~Truthy(suite.key) /\ YieldsIdentifier(given) THEN 1 ELSE 0
       /\ Truthy(suite.key) => f.result = Returned(KeyExport(suite.key))
       /\ ~Truthy(suite.key) /\ ~YieldsIdentifier(given)
            => f.result = Thrown(MissingVerificationMethodError)
       /\ ~Truthy(suite.key) /\ YieldsIdentifier(given)
            => /\ LoaderCalls(f)[1].url = IdentifierOf(given)
               /\ f.pc = "done" /\ f.result.kind = "return"
                    => /\ LoaderCalls(f)[1].answer # Undefined
                       /\ AssertVerificationMethod(suite, f.result.v)
                            = Returned(Undefined)

MatchFrames == {calls[c] : c \in {k \in Calls : calls[k].op = "matchProof"}}
BaseCalls(f) == SelectSeq(f.invoked, LAMBDA i : i.who = "super.matchProof")
\* the base policy has answered the call of frame f
BaseAnswered(f) == f.pc = "done" /\ BaseCalls(f)[1].answer # Undefined

\* C13: matchProof asks the base policy first and returns true exactly when
\* the base policy matches and, on a key-bound suite, the proof's
\* verificationMethod (a string, or an object's id) equals key.id; with no
\* key it returns the base policy's answer; a non-match, a proof with no
\* verificationMethod or a null one included, returns false and never
\* throws.
C13_MatchProof ==
  \A f \in MatchFrames :
    /\ Len(BaseCalls(f)) = 1
    /\ BaseAnswered(f) =>
         LET given == proofs[f.proof].verificationMethod
             matched == BaseCalls(f)[1].answer.b
         IN f.result =
              Returned(Bool(
                /\ matched
                /\ Truthy(suite.key) =>
                     IdentifierOf(given) = GetProp(suite.key, sID)))

\* ------------------------------------------------------ concurrent calls
\* the frames of the calls that have ended
EndedFrames == {calls[c] : c \in {k \in DOMAIN calls : calls[k].pc = "done"}}

\* sign({verifyData, proof}) run alone from the inputs of frame f ends as
\* frame f did, and left the proof it would leave alone
SignAsAlone(f) ==
  LET alone == SignFrame(suite, f.proof, f.proof0, f.verifyData)
  IN IF alone.pc = "done"
     THEN f.result = alone.result /\ proofs[f.proof] = f.proof0
     ELSE LET signature == SignatureOf(SignerKey,
                             CreateJws(alone.encodedHeader.s, f.verifyData))
          IN \/ /\ f.result = Returned(Ref(f.proof))
                /\ proofs[f.proof] =
                     ProofAfterSign(f.proof0,
                       DetachedJws(alone.encodedHeader.s, signature))
                /\ Decode(Piece(Split(proofs[f.proof].jws.s, Dot), 3)).b
                     = signature
             \/ /\ f.result = Thrown(SignerError)
                /\ proofs[f.proof] = ProofAfterSignerRejects(f.proof0)

\* verifySignature run alone from the inputs of frame f ends as frame f did
VerifyAsAlone(f) ==
  LET alone == VerifyFrame(suite, f.proof, f.proof0, f.verifyData,
                           f.verificationMethod, f.origin)
      key == IF HasVerifier(suite) THEN suite.verifier.key
             ELSE KeyFrom(f.verificationMethod)
  IN /\ proofs[f.proof] = f.proof0
     /\ f.result =
          IF alone.pc = "done" THEN alone.result
          ELSE VerifyResult(VerifierAccepts(key, alone.data.b,
                                            alone.signature.b))

C14_SameAsAlone ==
  \A f \in EndedFrames :
    /\ f.op = "sign" => SignAsAlone(f)
    /\ f.op = "verify" => VerifyAsAlone(f)

\* C14: under any interleaving of sign and verifySignature calls on one
\* suite that suspend at the signer, the key adapter or the verifier and
\* work on different proofs, every call ends with the result and the
\* proof.jws it has when run alone, each jws carrying the signature over
\* that call's own verifyData, and no step changes the suite's
\* configuration (type, alg, key, signer, verifier, contextUrl).  Every
\* state with an ended call has a step (at the latest the one that takes
\* the results), so the formula reads the ended calls of every state.
C14_CallsIndependent == [][C14_SameAsAlone /\ suite' = suite]_vars

\* two overlapping calls have both ended: a sign over one payload, and a
\* verifySignature over the other payload that went to the verifier
C14_Witness ==
  \E c, k \in DOMAIN calls :
    /\ calls[c].pc = "done" /\ calls[c].op = "sign"
    /\ calls[c].result = Returned(Ref(calls[c].proof))
    /\ calls[k].pc = "done" /\ calls[k].op = "verify"
    /\ Len(calls[k].invoked) > 0
    /\ calls[k].result.kind = "return"
    /\ calls[k].proof # calls[c].proof
    /\ calls[k].verifyData # calls[c].verifyData
====
